---- MODULE Spec2Model ----
(***************************************************************************)
(* Position lifecycle and execution ledger of tradekit:                    *)
(*   TradeKitPosition (models.py), TradeKitDB (database.py),               *)
(*   TradeKitBroker (broker.py) and TradeKitBot (bot.py).                  *)
(*                                                                         *)
(* Encoding.                                                               *)
(*  - Python None for an optional number or object is the empty tuple      *)
(*    <<>>, a present value x is <<x>>.                                    *)
(*  - Money and quantities are integers; a ratio is a number of tenths     *)
(*    (0.6 is 6) and so is the commission, so that                         *)
(*    int(cash * ratio * (1 - commission) / price) is the integer          *)
(*    quotient (cash * r * (10 - c)) \div (100 * price).                   *)
(*  - A date is "none" (None), "new" (stamped by datetime.now() during     *)
(*    the current call) or "set" (stamped during an earlier call): when a  *)
(*    call ends, the stamps it made settle from "new" to "set"; the        *)
(*    variable last keeps the record as the call left it, stamps marked.   *)
(*  - The trades table is a sequence of rows; a row's id is its index      *)
(*    (SERIAL PRIMARY KEY).                                                *)
(***************************************************************************)
EXTENDS Integers, Sequences, FiniteSets, TLC

\* ------------------------------------------------------------------ bounds
\* Largest number of calls made on the ledger and its gateways in one run.
MaxCalls == 5
\* Largest number of rows the trades table may hold.
MaxRows == 3
\* Largest cash balance a deposit may bring the ledger to.
MaxCash == 2000
\* Largest asset balance a deposit of assets may bring the ledger to.
MaxAssets == 12

\* ------------------------------------------------------------ input domains
Bots == {"b1", "b2"}
\* The gateways whose configuration the strategy changes.
Configurable == {"b1"}
PositionTypes == {"LONG", "SHORT"}
Prices == {0, 100, 120}
DepositAmounts == {-1, 1000}
AssetAmounts == {-1, 6}
Commissions == {0, 5}
LevelInputs == {"max", "moderate", "conservative", "reckless"}
PolicyInputs == {"adjust", "skip", "halt", "ignore"}
\* Which Store call of the current operation raises, if any: the gateway's
\* create/update ("order"), the ledger's submit-phase update ("submit") or
\* its finalize-phase update ("finalize").
StoreFaults == {"none", "order", "submit", "finalize"}

\* ------------------------------------------------------------------ options
None == <<>>
Some(x) == <<x>>
Val(o) == o[1]
Now == "new"

\* ------------------------------------------------------- TradeKitPosition
VALID_POSITION_TYPES == {"LONG", "SHORT"}
VALID_ACTIONS == {"BUY", "SELL"}
VALID_STATUSES == {"PENDING", "OPEN", "PARTIAL", "CLOSED", "CANCELED", "FAILED"}

Ticker(b) == "TCK"

\* date or datetime.now()
OrNow(d) == IF d = "none" THEN Now ELSE d

\* The keyword arguments of TradeKitPosition.__init__ with their defaults
\* (models.py:11-35); a caller overrides some of them with EXCEPT.
Args(bot_name, ticker, position_type, quantity, action, entry_submit_price) ==
    [id |-> None,
     bot_name |-> bot_name,
     ticker |-> ticker,
     position_type |-> position_type,
     quantity |-> quantity,
     action |-> action,
     entry_submit_price |-> entry_submit_price,
     status |-> "PENDING",
     entry_submit_date |-> "none",
     entry_date |-> "none",
     entry_price |-> None,
     exit_submit_date |-> "none",
     exit_submit_price |-> None,
     exit_date |-> "none",
     exit_price |-> None,
     stop_loss |-> None,
     take_profit |-> None,
     observed_entry_date |-> "none",
     observed_exit_date |-> "none"]

\* `if price and price <= 0`: None and 0 are falsy and pass.
BadPrice(p) == p # None /\ Val(p) # 0 /\ Val(p) <= 0

\* TRUE when TradeKitPosition.__init__ raises ValueError on arguments a.
InitRaises(a) ==
    \/ a.position_type \notin VALID_POSITION_TYPES
    \/ a.quantity <= 0
    \/ a.action \notin VALID_ACTIONS
    \/ BadPrice(a.entry_submit_price)
    \/ BadPrice(a.entry_price)
    \/ BadPrice(a.exit_submit_price)
    \/ BadPrice(a.exit_price)
    \/ a.status \notin VALID_STATUSES

\* The object TradeKitPosition.__init__ builds from arguments a.
TradeKitPosition(a) ==
    [id |-> a.id,
     bot_name |-> a.bot_name,
     ticker |-> a.ticker,
     position_type |-> a.position_type,
     quantity |-> a.quantity,
     action |-> a.action,
     observed_entry_date |-> OrNow(a.observed_entry_date),
     observed_exit_date |-> a.observed_exit_date,
     stop_loss |-> a.stop_loss,
     take_profit |-> a.take_profit,
     entry_submit_price |-> a.entry_submit_price,
     entry_submit_date |-> OrNow(a.entry_submit_date),
     entry_date |-> a.entry_date,
     entry_price |-> a.entry_price,
     exit_submit_date |-> a.exit_submit_date,
     exit_submit_price |-> a.exit_submit_price,
     exit_date |-> a.exit_date,
     exit_price |-> a.exit_price,
     order_type |-> "MARKET",
     status |-> a.status]

DateFields == {"observed_entry_date", "observed_exit_date", "entry_submit_date",
               "entry_date", "exit_submit_date", "exit_date"}
OptFields == {"stop_loss", "take_profit", "entry_submit_price", "entry_price",
              "exit_submit_price", "exit_price"}

\* When a call is over, the stamps it made are stamps of an earlier call.
SettleDate(d) == IF d = "new" THEN "set" ELSE d
Settle(r) == [f \in DOMAIN r |-> IF f \in DateFields THEN SettleDate(r[f]) ELSE r[f]]
SettleOpt(o) == IF o = None THEN None ELSE Some(Settle(Val(o)))
SettleDb(d) == [i \in DOMAIN d |-> Settle(d[i])]

\* ------------------------------------------------------------- TradeKitDB
\* create_position: INSERT ... RETURNING id. The columns the statement does
\* not name are NULL (order_type takes its default).
InsertedRow(r, newid) ==
    [id |-> Some(newid),
     bot_name |-> r.bot_name,
     ticker |-> r.ticker,
     position_type |-> r.position_type,
     quantity |-> r.quantity,
     action |-> r.action,
     observed_entry_date |-> "none",
     observed_exit_date |-> "none",
     stop_loss |-> r.stop_loss,
     take_profit |-> r.take_profit,
     entry_submit_price |-> r.entry_submit_price,
     entry_submit_date |-> r.entry_submit_date,
     entry_date |-> "none",
     entry_price |-> None,
     exit_submit_date |-> "none",
     exit_submit_price |-> None,
     exit_date |-> "none",
     exit_price |-> None,
     order_type |-> "MARKET",
     status |-> r.status]

create_position(d, r) == Append(d, InsertedRow(r, Len(d) + 1))

\* update_position: UPDATE trades SET <every attribute that is not None>
\* WHERE id = r.id. Raises ValueError when r.id is None.
UpdateRaises(r) == r.id = None

IsNoneField(f, v) ==
    IF f \in DateFields THEN v = "none"
    ELSE IF f \in OptFields THEN v = None
    ELSE FALSE

UpdatedRow(row, r) ==
    [f \in DOMAIN row |->
        IF f = "id" \/ IsNoneField(f, r[f]) THEN row[f] ELSE r[f]]

update_position(d, r) ==
    [i \in DOMAIN d |-> IF Some(i) = r.id THEN UpdatedRow(d[i], r) ELSE d[i]]

\* get_last_position: the row of (bot_name, ticker) with the largest id.
RowsOf(d, bot_name, ticker) ==
    {i \in DOMAIN d : d[i].bot_name = bot_name /\ d[i].ticker = ticker}

MaxOf(S) == CHOOSE x \in S : \A y \in S : y <= x

LastRow(d, bot_name, ticker) ==
    IF RowsOf(d, bot_name, ticker) = {} THEN None
    ELSE Some(d[MaxOf(RowsOf(d, bot_name, ticker))])

\* get_last_position passes every column of the row it fetched to the
\* constructor (database.py:214-236); its fields are the arguments' names.
RowArgs(row) == [f \in DOMAIN row \ {"order_type"} |-> row[f]]

\* get_last_position: None, or the TradeKitPosition built from the last row.
LoadRaises(d, bot_name, ticker) ==
    /\ LastRow(d, bot_name, ticker) # None
    /\ InitRaises(RowArgs(Val(LastRow(d, bot_name, ticker))))

get_last_position(d, bot_name, ticker) ==
    IF LastRow(d, bot_name, ticker) = None THEN None
    ELSE Some(TradeKitPosition(RowArgs(Val(LastRow(d, bot_name, ticker)))))

\* --------------------------------------------------------- TradeKitBroker
\* What a call leaves behind: the ledger's totals, the table, the record it
\* worked on, how it ended ("ok" or the error raised) and what it returned.
Outcome(c, h, d, r, result, ret) ==
    [cash |-> c, asset_holdings |-> h, db |-> d, rec |-> r,
     result |-> result, ret |-> ret]

StatusRejected_OnlyClosed(r) == r.status = "CLOSED"

StatusRejected_AllowsClosed(r) == r.status \notin {"PENDING", "OPEN", "CLOSED"}

\* execute_order's status guard: TRUE when it raises ValueError.
StatusRejected(r) == r.status \notin {"PENDING", "OPEN"}

\* _submit_order_to_broker, before its update_position call.
Submitted(r) ==
    [r EXCEPT !.status = "PENDING",
              !.entry_submit_date = IF r.action = "BUY" THEN Now ELSE @,
              !.exit_submit_date = IF r.action = "SELL" THEN Now ELSE @]

\* The price _handle_buy_execution charges.
BuyPrice(r) ==
    IF r.position_type = "SHORT" THEN r.exit_submit_price
    ELSE r.entry_submit_price

SellPrice_Entry(r) == r.entry_submit_price

\* The price _handle_sell_execution pays.
SellPrice(r) ==
    IF r.position_type = "LONG" THEN r.exit_submit_price
    ELSE r.entry_submit_price

\* The `self.cash < 0` test of _handle_buy_execution after the debit.
InsufficientFunds(c, cost) == c - cost < 0

InsufficientShares_Never(h, quantity) == FALSE

\* Selling the whole balance is refused too.
InsufficientShares_Strict(h, quantity) == h - quantity <= 0

\* The `self.asset_holdings < 0` test of _handle_sell_execution.
InsufficientShares(h, quantity) == h - quantity < 0

\* `self.cash += cost`: the debit taken back when it overdraws (broker.py:88).
RevertCash_Missing(c, cost) == c

RevertCash(c, cost) == c + cost

\* `self.asset_holdings += quantity` (broker.py:111), likewise.
RevertShares(h, quantity) == h + quantity

BuyFilled_NoEntryPrice(r) ==
    IF r.position_type = "LONG"
    THEN [r EXCEPT !.status = "OPEN", !.entry_date = Now]
    ELSE [r EXCEPT !.status = "CLOSED", !.exit_date = Now,
                   !.exit_price = r.exit_submit_price]

\* The stamps of _handle_buy_execution on the record.
BuyFilled(r) ==
    IF r.position_type = "LONG"
    THEN [r EXCEPT !.status = "OPEN", !.entry_date = Now,
                   !.entry_price = r.entry_submit_price]
    ELSE IF r.position_type = "SHORT"
    THEN [r EXCEPT !.status = "CLOSED", !.exit_date = Now,
                   !.exit_price = r.exit_submit_price]
    ELSE r

SellFilled_AlwaysCloses(r) ==
    [r EXCEPT !.status = "CLOSED", !.exit_date = Now,
              !.exit_price = r.exit_submit_price]

\* The stamps of _handle_sell_execution on the record.
SellFilled(r) ==
    IF r.position_type = "LONG"
    THEN [r EXCEPT !.status = "CLOSED", !.exit_date = Now,
                   !.exit_price = r.exit_submit_price]
    ELSE IF r.position_type = "SHORT"
    THEN [r EXCEPT !.status = "OPEN", !.entry_date = Now,
                   !.entry_price = r.entry_submit_price]
    ELSE r

\* The fill is not written to the store.
Persisted_NotWritten(c, h, d, r, fault) ==
    IF fault = "finalize"
    THEN Outcome(c, h, d, r, "StoreFinalize", None)
    ELSE Outcome(c, h, d, r, "ok", Some(r.quantity))

\* The ledger's totals once the final update_position call of a handler has
\* been reached: the debit and the credit are already applied.
\* The call raises when the Store fails; the totals stay as mutated.
Persisted(c, h, d, r, fault) ==
    IF fault = "finalize"
    THEN Outcome(c, h, d, r, "StoreFinalize", None)
    ELSE Outcome(c, h, update_position(d, r), r, "ok", Some(r.quantity))

\* _handle_buy_execution. A price of None makes `p * quantity` a TypeError.
handle_buy_execution(c, h, d, r, fault) ==
    IF BuyPrice(r) = None
    THEN Outcome(c, h, d, r, "TypeError", None)
    ELSE IF InsufficientFunds(c, Val(BuyPrice(r)) * r.quantity)
    THEN Outcome(RevertCash(c - Val(BuyPrice(r)) * r.quantity,
                            Val(BuyPrice(r)) * r.quantity),
                 h, d, r, "InsufficientFunds", None)
    ELSE Persisted(c - Val(BuyPrice(r)) * r.quantity, h + r.quantity, d,
                   BuyFilled(r), fault)

\* _handle_sell_execution.
handle_sell_execution(c, h, d, r, fault) ==
    IF SellPrice(r) = None
    THEN Outcome(c, h, d, r, "TypeError", None)
    ELSE IF InsufficientShares(h, r.quantity)
    THEN Outcome(c, RevertShares(h - r.quantity, r.quantity), d, r,
                 "InsufficientShares", None)
    ELSE Persisted(c + Val(SellPrice(r)) * r.quantity, h - r.quantity, d,
                   SellFilled(r), fault)

\* _finalize_order_execution.
finalize_order_execution(c, h, d, r, fault) ==
    IF r.action = "BUY" THEN handle_buy_execution(c, h, d, r, fault)
    ELSE IF r.action = "SELL" THEN handle_sell_execution(c, h, d, r, fault)
    ELSE Outcome(c, h, d, r, "ok", Some(r.quantity))

\* execute_order: the status guard, the submit phase, the finalize phase.
execute_order(c, h, d, r, fault) ==
    IF StatusRejected(r)
    THEN Outcome(c, h, d, r, "InvalidTransition", None)
    ELSE IF UpdateRaises(Submitted(r))
    THEN Outcome(c, h, d, Submitted(r), "MissingId", None)
    ELSE IF fault = "submit"
    THEN Outcome(c, h, d, Submitted(r), "StoreSubmit", None)
    ELSE finalize_order_execution(c, h, update_position(d, Submitted(r)),
                                  Submitted(r), fault)

\* ------------------------------------------------------------ TradeKitBot
\* The configuration TradeKitBot.__init__ sets (bot.py:33-58), ratios in
\* tenths.
DefaultLevels == [max |-> 10, moderate |-> 6, conservative |-> 4]

DefaultConfig ==
    [buy_aggressiveness_levels |-> DefaultLevels,
     buy_aggressiveness |-> "moderate",
     sell_aggressiveness_levels |-> DefaultLevels,
     sell_aggressiveness |-> "max",
     insufficient_resources_policy |-> "adjust"]

LevelNames == {"max", "moderate", "conservative"}
insufficient_resources_policy_values == {"adjust", "skip", "halt"}

EnforceRaises_Never(quantity, policy) == FALSE

\* enforce_quantity_policy: raises RuntimeError under "halt" ...
EnforceRaises(quantity, policy) == quantity <= 0 /\ policy = "halt"

\* ... and otherwise returns the quantity, or 0 when it is not positive.
enforce_quantity_policy(quantity, policy) == IF quantity > 0 THEN quantity ELSE 0

\* The budget taken before commission.
BuyQuantity_NoCommission(c, ratio, comm, price) == (c * ratio * 10) \div (100 * price)

\* The quotient rounded up past the budget.
BuyQuantity_RoundsUp(c, ratio, comm, price) == (c * ratio * (10 - comm)) \div (100 * price) + 1

\* calculate_buy_quantity before enforcement:
\* int(cash * ratio * (1 - commission) / price), ratio and commission in tenths.
BuyQuantity(c, ratio, comm, price) == (c * ratio * (10 - comm)) \div (100 * price)

NoOpenPosition_Never(pos, h) == FALSE

\* calculate_sell_quantity raises RuntimeError("No open position to sell.")
NoOpenPosition(pos, h) == pos = None /\ h = 0

\* calculate_sell_quantity before enforcement: int(q * ratio), where q is the
\* tracked record's quantity, or the ledger's holdings when none is tracked.
SellBase(pos, h) == IF pos # None THEN Val(pos).quantity ELSE h
SellQuantity(pos, h, ratio) == (SellBase(pos, h) * ratio) \div 10

\* The quantity place_order sizes (bot.py:212), before enforcement.
RawQuantity(c, h, comm, pos, cfg, o) ==
    IF o.action = "BUY"
    THEN BuyQuantity(c, cfg.buy_aggressiveness_levels[cfg.buy_aggressiveness],
                     comm, o.price)
    ELSE SellQuantity(pos, h,
                      cfg.sell_aggressiveness_levels[cfg.sell_aggressiveness])

\* What a gateway call leaves behind: the ledger's totals, the table, the
\* tracked position, how the call ended, what it returned, the quantity it
\* sized (None when sizing was not reached or raised) and whether
\* self.position was bound to a new object.
BotOutcome(x, pos, q, rebound) ==
    [cash |-> x.cash, asset_holdings |-> x.asset_holdings, db |-> x.db,
     position |-> pos, result |-> x.result, ret |-> x.ret, q |-> q,
     rebound |-> rebound]

\* A call that ends before it touches anything.
Untouched(c, h, d, pos, result, ret, q) ==
    [cash |-> c, asset_holdings |-> h, db |-> d, position |-> pos,
     result |-> result, ret |-> ret, q |-> q, rebound |-> FALSE]

\* submit_order's dispatch: the legs that create_position persists.
Inserts(r) ==
    \/ r.action = "BUY" /\ r.position_type = "LONG"
    \/ r.action = "SELL" /\ r.position_type = "SHORT"

\* submit_order's dispatch: the legs that set exit_submit_price and update.
Updates(r) ==
    \/ r.action = "BUY" /\ r.position_type = "SHORT"
    \/ r.action = "SELL" /\ r.position_type = "LONG"

\* bot.py:236: self.position.quantity -= executed_quantity, on success only.
Decremented(x) ==
    IF x.result = "ok"
    THEN [x EXCEPT !.rec.quantity = @ - Val(x.ret)]
    ELSE x

\* submit_order on record r, then the decrement of place_order's try block.
submit_order(c, h, d, r, price, fault) ==
    IF Inserts(r)
    THEN IF fault = "order"
         THEN Outcome(c, h, d, r, "StoreOrder", None)
         ELSE Decremented(execute_order(c, h, create_position(d, r),
                              [r EXCEPT !.id = Some(Len(d) + 1)], fault))
    ELSE IF Updates(r)
    THEN IF UpdateRaises(r)
         THEN Outcome(c, h, d, [r EXCEPT !.exit_submit_price = Some(price)],
                      "MissingId", None)
         ELSE IF fault = "order"
         THEN Outcome(c, h, d, [r EXCEPT !.exit_submit_price = Some(price)],
                      "StoreOrder", None)
         ELSE Decremented(execute_order(c, h,
                  update_position(d, [r EXCEPT !.exit_submit_price = Some(price)]),
                  [r EXCEPT !.exit_submit_price = Some(price)], fault))
    ELSE Decremented(execute_order(c, h, d, r, fault))

\* The arguments place_order passes to TradeKitPosition (bot.py:218-228).
NewArgs(b, o, quantity) ==
    [Args(b, Ticker(b), o.position_type, quantity, o.action, Some(o.price))
        EXCEPT !.observed_entry_date = o.observed_date,
               !.stop_loss = o.stop_loss,
               !.take_profit = o.take_profit]

\* A CLOSED tracked record is kept and updated.
OpensNew_OnlyNone(pos) == pos = None

\* place_order's "open a new position" test (bot.py:216).
OpensNew(pos) == pos = None \/ Val(pos).status = "CLOSED"

\* The tracked record also takes the order's position type.
Retargeted_TakesType(r, o) ==
    [r EXCEPT !.action = o.action, !.observed_exit_date = o.observed_date,
              !.position_type = o.position_type]

\* The in-place update of the tracked record (bot.py:231-232).
Retargeted(r, o) ==
    [r EXCEPT !.action = o.action, !.observed_exit_date = o.observed_date]

Skips_Never(quantity, policy) == FALSE

Skips_AnyPolicy(quantity, policy) == quantity = 0

\* place_order's no-trade test (bot.py:213).
Skips(quantity, policy) == quantity = 0 /\ policy = "skip"

\* place_order from the sized quantity on (bot.py:213-239).
PlaceSized(b, c, h, d, pos, cfg, o, fault, quantity) ==
    IF Skips(quantity, cfg.insufficient_resources_policy)
    THEN Untouched(c, h, d, pos, "skip", None, Some(quantity))
    ELSE IF OpensNew(pos)
    THEN IF InitRaises(NewArgs(b, o, quantity))
         THEN Untouched(c, h, d, pos, "ValidationError", None, Some(quantity))
         ELSE LET x == submit_order(c, h, d,
                           TradeKitPosition(NewArgs(b, o, quantity)),
                           o.price, fault)
              IN BotOutcome(x, Some(x.rec), Some(quantity), TRUE)
    ELSE LET x == submit_order(c, h, d, Retargeted(Val(pos), o), o.price, fault)
         IN BotOutcome(x, Some(x.rec), Some(quantity), FALSE)

PriceRejected_OnlyZero(price) == price = 0

\* place_order's price check (bot.py:209).
PriceRejected(price) == price <= 0

\* place_order (bot.py:207-239).
place_order(b, c, h, comm, d, pos, cfg, o, fault) ==
    IF PriceRejected(o.price)
    THEN Untouched(c, h, d, pos, "InvalidPrice", None, None)
    ELSE IF o.action = "SELL" /\ NoOpenPosition(pos, h)
    THEN Untouched(c, h, d, pos, "NoOpenPosition", None, None)
    ELSE IF EnforceRaises(RawQuantity(c, h, comm, pos, cfg, o),
                          cfg.insufficient_resources_policy)
    THEN Untouched(c, h, d, pos, "InsufficientResources", None, None)
    ELSE PlaceSized(b, c, h, d, pos, cfg, o, fault,
             enforce_quantity_policy(RawQuantity(c, h, comm, pos, cfg, o),
                                     cfg.insufficient_resources_policy))

\* --------------------------------------------------------------- the state
VARIABLES
    cash,            \* TradeKitBroker.cash
    asset_holdings,  \* TradeKitBroker.asset_holdings
    commission,      \* TradeKitBroker.commission, in tenths
    db,              \* the trades table
    position,        \* TradeKitBot.position of each gateway: None or <<record>>
    config,          \* each gateway's aggressiveness and policy settings
    last,            \* the call made last and how it ended
    calls            \* the number of calls made so far

vars == <<cash, asset_holdings, commission, db, position, config, last, calls>>

\* The inputs of buy and sell this model leaves at their defaults.
ObservedDates == {"none"}
StopLosses == {None}
TakeProfits == {None}

Orders(action, prices) ==
    [action : {action}, position_type : PositionTypes, price : prices,
     observed_date : ObservedDates, stop_loss : StopLosses,
     take_profit : TakeProfits]

\* A call: the operation, the gateway it was made on, its arguments, how it
\* ended (result, ret), the quantity it sized, whether it bound
\* self.position to a new object, the record it worked on as it found it
\* (before) and as it left it (touched, the stamps it made are "new"), and
\* the ledger's totals when it began.
Call(op, b, action, position_type, price, result, ret, q, rebound, before, touched) ==
    [op |-> op, bot |-> b, action |-> action, position_type |-> position_type,
     price |-> price, result |-> result, ret |-> ret, q |-> q,
     rebound |-> rebound, before |-> before, touched |-> touched,
     cash0 |-> cash, holdings0 |-> asset_holdings]

Plain(op, b, result) ==
    Call(op, b, "-", "-", 0, result, None, None, FALSE, None, None)

\* One more call is made.
Tick == calls < MaxCalls /\ calls' = calls + 1

Init ==
    /\ cash = 0
    /\ asset_holdings = 0
    /\ commission = 0
    /\ db = <<>>
    /\ position = [b \in Bots |-> None]
    /\ config = [b \in Bots |-> DefaultConfig]
    /\ last = Plain("init", "-", "ok")
    /\ calls = 0

\* TradeKitBroker.deposit
Deposit(amount) ==
    /\ Tick
    /\ cash + amount <= MaxCash
    /\ cash' = IF amount < 0 THEN cash ELSE cash + amount
    /\ last' = Plain("deposit", "-", IF amount < 0 THEN "ValueError" ELSE "ok")
    /\ UNCHANGED <<asset_holdings, commission, db, position, config>>

\* TradeKitBroker.deposit_assets
DepositAssets(amount) ==
    /\ Tick
    /\ asset_holdings + amount <= MaxAssets
    /\ asset_holdings' = IF amount < 0 THEN asset_holdings
                         ELSE asset_holdings + amount
    /\ last' = Plain("deposit_assets", "-",
                     IF amount < 0 THEN "ValueError" ELSE "ok")
    /\ UNCHANGED <<cash, commission, db, position, config>>

\* broker.commission = c, the assignment the constructor's docstring describes.
SetCommission(c) ==
    /\ Tick
    /\ commission' = c
    /\ last' = Plain("set_commission", "-", "ok")
    /\ UNCHANGED <<cash, asset_holdings, db, position, config>>

\* TradeKitBot.set_buy_aggressiveness
SetBuyAggressiveness(b, level) ==
    /\ Tick
    /\ config' = IF level \in DOMAIN config[b].buy_aggressiveness_levels
                 THEN [config EXCEPT ![b].buy_aggressiveness = level]
                 ELSE config
    /\ last' = Plain("set_buy_aggressiveness", b,
                     IF level \in DOMAIN config[b].buy_aggressiveness_levels
                     THEN "ok" ELSE "ValueError")
    /\ UNCHANGED <<cash, asset_holdings, commission, db, position>>

\* TradeKitBot.set_sell_aggressiveness
SetSellAggressiveness(b, level) ==
    /\ Tick
    /\ config' = IF level \in DOMAIN config[b].sell_aggressiveness_levels
                 THEN [config EXCEPT ![b].sell_aggressiveness = level]
                 ELSE config
    /\ last' = Plain("set_sell_aggressiveness", b,
                     IF level \in DOMAIN config[b].sell_aggressiveness_levels
                     THEN "ok" ELSE "ValueError")
    /\ UNCHANGED <<cash, asset_holdings, commission, db, position>>

RatiosRejected_RangeOnly(max_ratio, moderate_ratio, conservative_ratio) ==
    ~(/\ 0 <= max_ratio /\ max_ratio <= 10
      /\ 0 <= moderate_ratio /\ moderate_ratio <= 10
      /\ 0 <= conservative_ratio /\ conservative_ratio <= 10)

\* The two checks of set_buy_aggressiveness_ratios and
\* set_sell_aggressiveness_ratios (bot.py:69-72, 88-91), ratios in tenths:
\* TRUE when the call raises ValueError.
RatiosRejected(max_ratio, moderate_ratio, conservative_ratio) ==
    \/ ~(/\ 0 <= max_ratio /\ max_ratio <= 10
         /\ 0 <= moderate_ratio /\ moderate_ratio <= 10
         /\ 0 <= conservative_ratio /\ conservative_ratio <= 10)
    \/ ~(max_ratio >= moderate_ratio /\ moderate_ratio >= conservative_ratio)

\* The map the setters assign (bot.py:73-77, 92-96).
Levels(max_ratio, moderate_ratio, conservative_ratio) ==
    [max |-> max_ratio, moderate |-> moderate_ratio,
     conservative |-> conservative_ratio]

\* TradeKitBot.set_buy_aggressiveness_ratios
SetBuyRatios(b, max_ratio, moderate_ratio, conservative_ratio) ==
    /\ Tick
    /\ config' = IF RatiosRejected(max_ratio, moderate_ratio, conservative_ratio)
                 THEN config
                 ELSE [config EXCEPT ![b].buy_aggressiveness_levels =
                          Levels(max_ratio, moderate_ratio, conservative_ratio)]
    /\ last' = [Plain("set_buy_aggressiveness_ratios", b,
                      IF RatiosRejected(max_ratio, moderate_ratio, conservative_ratio)
                      THEN "ValueError" ELSE "ok")
                  EXCEPT !.touched = Some(Levels(max_ratio, moderate_ratio,
                                                 conservative_ratio))]
    /\ UNCHANGED <<cash, asset_holdings, commission, db, position>>

\* TradeKitBot.set_sell_aggressiveness_ratios
SetSellRatios(b, max_ratio, moderate_ratio, conservative_ratio) ==
    /\ Tick
    /\ config' = IF RatiosRejected(max_ratio, moderate_ratio, conservative_ratio)
                 THEN config
                 ELSE [config EXCEPT ![b].sell_aggressiveness_levels =
                          Levels(max_ratio, moderate_ratio, conservative_ratio)]
    /\ last' = [Plain("set_sell_aggressiveness_ratios", b,
                      IF RatiosRejected(max_ratio, moderate_ratio, conservative_ratio)
                      THEN "ValueError" ELSE "ok")
                  EXCEPT !.touched = Some(Levels(max_ratio, moderate_ratio,
                                                 conservative_ratio))]
    /\ UNCHANGED <<cash, asset_holdings, commission, db, position>>

\* TradeKitBot.set_insufficient_resources_policy
SetPolicy(b, policy) ==
    /\ Tick
    /\ config' = IF policy \in insufficient_resources_policy_values
                 THEN [config EXCEPT ![b].insufficient_resources_policy = policy]
                 ELSE config
    /\ last' = Plain("set_insufficient_resources_policy", b,
                     IF policy \in insufficient_resources_policy_values
                     THEN "ok" ELSE "ValueError")
    /\ UNCHANGED <<cash, asset_holdings, commission, db, position>>

\* The record a gateway call worked on: the tracked one, if the call got as
\* far as creating or retargeting it.
Touched(x) ==
    IF x.result \in {"InvalidPrice", "NoOpenPosition", "InsufficientResources",
                     "skip", "ValidationError"}
    THEN None ELSE x.position

\* The state a gateway call leaves, from its outcome x.
Placed(b, o, x) ==
    /\ Tick
    /\ Len(x.db) <= MaxRows
    /\ cash' = x.cash
    /\ asset_holdings' = x.asset_holdings
    /\ db' = SettleDb(x.db)
    /\ position' = [position EXCEPT ![b] = SettleOpt(x.position)]
    /\ last' = Call("place_order", b, o.action, o.position_type, o.price,
                    x.result, x.ret, x.q, x.rebound, position[b], Touched(x))
    /\ UNCHANGED <<commission, config>>

\* TradeKitBot.buy
Buy(b, o, fault) ==
    Placed(b, o, place_order(b, cash, asset_holdings, commission, db,
                             position[b], config[b], o, fault))

\* TradeKitBot.sell
Sell(b, o, fault) ==
    Placed(b, o, place_order(b, cash, asset_holdings, commission, db,
                             position[b], config[b], o, fault))

\* The state a direct TradeKitBroker.execute_order call leaves.
Executed(x) ==
    /\ Tick
    /\ cash' = x.cash
    /\ asset_holdings' = x.asset_holdings
    /\ db' = SettleDb(x.db)
    /\ UNCHANGED <<commission, config>>

\* broker.execute_order(bot.get_position()): the ledger called directly on
\* the record a gateway tracks.
ExecuteTracked(b, fault) ==
    /\ position[b] # None
    /\ LET x == execute_order(cash, asset_holdings, db, Val(position[b]), fault)
       IN /\ Executed(x)
          /\ position' = [position EXCEPT ![b] = Some(Settle(x.rec))]
          /\ last' = Call("execute_order", b, x.rec.action, x.rec.position_type,
                          0, x.result, x.ret, None, FALSE, position[b],
                          Some(x.rec))

\* The record a caller constructs by hand to pass to execute_order.
ScratchArgs(status) ==
    [Args("b1", Ticker("b1"), "LONG", 1, "BUY", Some(100)) EXCEPT !.status = status]

\* broker.execute_order(TradeKitPosition(...)): the ledger called directly on
\* a record that no gateway tracks and the Store never saw.
ExecuteNew(status, fault) ==
    /\ LET x == execute_order(cash, asset_holdings, db,
                              TradeKitPosition(ScratchArgs(status)), fault)
       IN /\ Executed(x)
          /\ last' = Call("execute_order", "-", "BUY", "LONG", 0, x.result,
                          x.ret, None, FALSE,
                          Some(TradeKitPosition(ScratchArgs(status))),
                          Some(x.rec))
    /\ UNCHANGED position

\* TradeKitBot.load_position, the first step of run(strategy); the strategy's
\* own calls are the actions that follow.
Run(b) ==
    /\ Tick
    /\ position' = IF LoadRaises(db, b, Ticker(b)) THEN position
                   ELSE [position EXCEPT
                           ![b] = SettleOpt(get_last_position(db, b, Ticker(b)))]
    /\ last' = IF LoadRaises(db, b, Ticker(b))
               THEN Plain("run", b, "ValidationError")
               ELSE Call("run", b, "-", "-", 0, "ok", None, None, TRUE,
                         position[b], get_last_position(db, b, Ticker(b)))
    /\ UNCHANGED <<cash, asset_holdings, commission, db, config>>

\* bot.calculate_buy_quantity(price), called by the strategy to size without
\* ordering: the division raises on price 0, the policy on a quantity that
\* is not positive under "halt".
CalculateBuyQuantity(b, price) ==
    /\ Tick
    /\ last' =
         IF price = 0
         THEN Call("calculate_buy_quantity", b, "BUY", "-", price,
                   "ZeroDivisionError", None, None, FALSE, None, None)
         ELSE LET quantity ==
                    BuyQuantity(cash,
                        config[b].buy_aggressiveness_levels[
                            config[b].buy_aggressiveness],
                        commission, price)
              IN IF EnforceRaises(quantity,
                                  config[b].insufficient_resources_policy)
                 THEN Call("calculate_buy_quantity", b, "BUY", "-", price,
                           "InsufficientResources", None, None, FALSE,
                           None, None)
                 ELSE Call("calculate_buy_quantity", b, "BUY", "-", price, "ok",
                           Some(enforce_quantity_policy(quantity,
                                    config[b].insufficient_resources_policy)),
                           None, FALSE, None, None)
    /\ UNCHANGED <<cash, asset_holdings, commission, db, position, config>>

\* TradeKitPosition(**a): a record is constructed outside any gateway. The
\* call keeps its keyword arguments (before) and, when the constructor
\* returns, the record it built (touched).
Construct(a) ==
    /\ Tick
    /\ last' = IF InitRaises(a)
               THEN Call("construct", a.bot_name, a.action, a.position_type, 0,
                         "ValidationError", None, None, FALSE, Some(a), None)
               ELSE Call("construct", a.bot_name, a.action, a.position_type, 0,
                         "ok", None, None, FALSE, Some(a),
                         Some(TradeKitPosition(a)))
    /\ UNCHANGED <<cash, asset_holdings, commission, db, position, config>>

\* One gateway trading on the ledger, the Store never failing.
Next ==
    \/ \E amount \in DepositAmounts : Deposit(amount)
    \/ \E amount \in AssetAmounts : DepositAssets(amount)
    \/ \E policy \in PolicyInputs : SetPolicy("b1", policy)
    \/ \E o \in Orders("BUY", Prices) : Buy("b1", o, "none")
    \/ \E o \in Orders("SELL", Prices) : Sell("b1", o, "none")
    \/ ExecuteTracked("b1", "none")
    \/ \E status \in VALID_STATUSES : ExecuteNew(status, "none")
    \/ Run("b1")

Spec == Init /\ [][Next]_vars

\* One gateway trading on the ledger, any one Store call of an operation
\* failing.
FaultPrices == {100}

NextFaults ==
    \/ \E amount \in DepositAmounts : Deposit(amount)
    \/ \E amount \in AssetAmounts : DepositAssets(amount)
    \/ \E o \in Orders("BUY", FaultPrices), fault \in StoreFaults : Buy("b1", o, fault)
    \/ \E o \in Orders("SELL", FaultPrices), fault \in StoreFaults : Sell("b1", o, fault)
    \/ \E fault \in StoreFaults : ExecuteTracked("b1", fault)
    \/ \E status \in VALID_STATUSES : ExecuteNew(status, "none")
    \/ Run("b1")

SpecFaults == Init /\ [][NextFaults]_vars

\* Two gateways sharing the ledger, their calls interleaved, each running to
\* completion.
SharedPrices == {100}

NextShared ==
    \/ \E amount \in DepositAmounts : Deposit(amount)
    \/ \E amount \in AssetAmounts : DepositAssets(amount)
    \/ \E b \in Bots, o \in Orders("BUY", SharedPrices) : Buy(b, o, "none")
    \/ \E b \in Bots, o \in Orders("SELL", SharedPrices) : Sell(b, o, "none")
    \/ \E b \in Bots : ExecuteTracked(b, "none")
    \/ \E b \in Bots : Run(b)

SpecShared == Init /\ [][NextShared]_vars

\* One gateway trading on the ledger with its sizing reconfigured between
\* orders, the Store never failing.
SizingPrices == {-1, 0, 100}

NextSizing ==
    \/ \E amount \in DepositAmounts : Deposit(amount)
    \/ \E amount \in AssetAmounts : DepositAssets(amount)
    \/ \E c \in Commissions : SetCommission(c)
    \/ \E level \in LevelInputs : SetBuyAggressiveness("b1", level)
    \/ \E level \in LevelInputs : SetSellAggressiveness("b1", level)
    \/ \E o \in Orders("BUY", SizingPrices) : Buy("b1", o, "none")
    \/ \E o \in Orders("SELL", SizingPrices) : Sell("b1", o, "none")
    \/ Run("b1")

SpecSizing == Init /\ [][NextSizing]_vars

\* One gateway reconfigured: the ratio triples (in and out of range,
\* descending and not), the active levels and the policy.
RatioTriples ==
    {<<3, 6, 1>>, <<6, 3, 1>>, <<10, 10, 0>>, <<11, 6, 3>>, <<6, 3, -1>>}

NextConfig ==
    \/ \E t \in RatioTriples : SetBuyRatios("b1", t[1], t[2], t[3])
    \/ \E t \in RatioTriples : SetSellRatios("b1", t[1], t[2], t[3])
    \/ \E level \in LevelInputs : SetBuyAggressiveness("b1", level)
    \/ \E level \in LevelInputs : SetSellAggressiveness("b1", level)
    \/ \E policy \in PolicyInputs : SetPolicy("b1", policy)

SpecConfig == Init /\ [][NextConfig]_vars

\* One gateway whose strategy sizes buys with calculate_buy_quantity between
\* deposits, changes of commission, level and policy, and buys.
NextQuantity ==
    \/ \E amount \in DepositAmounts : Deposit(amount)
    \/ \E c \in Commissions : SetCommission(c)
    \/ \E level \in LevelInputs : SetBuyAggressiveness("b1", level)
    \/ \E policy \in PolicyInputs : SetPolicy("b1", policy)
    \/ \E price \in SizingPrices : CalculateBuyQuantity("b1", price)
    \/ \E o \in Orders("BUY", SizingPrices) : Buy("b1", o, "none")

SpecQuantity == Init /\ [][NextQuantity]_vars

\* Records constructed directly: the optional price and risk arguments, up to
\* two of them given at a time, each absent, negative, zero or positive.
PriceFields ==
    {"entry_submit_price", "entry_price", "exit_submit_price", "exit_price"}
RiskFields == {"stop_loss", "take_profit"}
OptionalInputs == {None, Some(-1), Some(0), Some(100)}
\* Most optional arguments given in one construction.
MaxGiven == 2

Given(a, g) == [f \in DOMAIN a |-> IF f \in DOMAIN g THEN g[f] ELSE a[f]]

RecordInputs ==
    {Given(Args("b1", Ticker("b1"), "LONG", 6, "BUY", None), g) :
       g \in UNION {[F -> OptionalInputs] :
                      F \in {S \in SUBSET (PriceFields \cup RiskFields) :
                               Cardinality(S) <= MaxGiven}}}

NextRecord == \E a \in RecordInputs : Construct(a)

SpecRecord == Init /\ [][NextRecord]_vars

\* ------------------------------------------------------------------ claims
Terminal == {"CLOSED", "CANCELED", "FAILED"}

\* The calls that reach the ledger, and how a call that returned ended.
OrderOps == {"place_order", "execute_order"}

\* The submit price of the leg an order moves: the entry leg for an opening
\* order (BUY on LONG, SELL on SHORT), the exit leg for a closing one.
LegPrice(r) ==
    IF (r.action = "BUY") = (r.position_type = "LONG")
    THEN r.entry_submit_price ELSE r.exit_submit_price

\* C1: a BUY with position type LONG placed through place_order while no
\* record is tracked (or the tracked one is CLOSED), with price > 0 and a
\* sized quantity q > 0, on return leaves the record OPEN with entry_price
\* equal to the submitted price, cash lower by exactly price * q and
\* asset_holdings higher by exactly q.
C1_BuyLongOpens ==
    (/\ last.op = "place_order"
     /\ last.action = "BUY"
     /\ last.position_type = "LONG"
     /\ (last.before = None \/ Val(last.before).status = "CLOSED")
     /\ last.price > 0
     /\ last.q # None
     /\ Val(last.q) > 0
     /\ last.result = "ok")
    => /\ position[last.bot] # None
       /\ Val(position[last.bot]).status = "OPEN"
       /\ Val(position[last.bot]).entry_price = Some(last.price)
       /\ cash = last.cash0 - last.price * Val(last.q)
       /\ asset_holdings = last.holdings0 + Val(last.q)

\* The spec's scenario: cash 1000, commission 0, price 100, ratio 0.6.
C1_Witness ==
    /\ last.op = "place_order"
    /\ last.action = "BUY"
    /\ last.position_type = "LONG"
    /\ last.before = None
    /\ last.cash0 = 1000
    /\ last.price = 100
    /\ last.q = Some(6)
    /\ last.result = "ok"
    /\ cash = 400
    /\ asset_holdings = 6
    /\ Val(position[last.bot]).status = "OPEN"

\* C2: round trip on one gateway with commission 0 and sell ratio 1.0: a
\* buy() that opens a LONG and fills Q at P1, followed by a sell() at P2,
\* closes the full quantity Q, changes cash by Q * (P2 - P1) overall,
\* returns asset_holdings to its value before the buy and leaves the record
\* CLOSED.
C2_RoundTrip ==
    [][(/\ last.op = "place_order"
        /\ last.action = "BUY"
        /\ last.position_type = "LONG"
        /\ (last.before = None \/ Val(last.before).status = "CLOSED")
        /\ last.result = "ok"
        /\ Val(last.ret) > 0
        /\ commission = 0
        /\ config[last.bot].sell_aggressiveness_levels[
               config[last.bot].sell_aggressiveness] = 10
        /\ last'.op = "place_order"
        /\ last'.bot = last.bot
        /\ last'.action = "SELL"
        /\ last'.position_type = "LONG"
        /\ last'.price > 0)
       => /\ last'.result = "ok"
          /\ last'.ret = last.ret
          /\ cash' = last.cash0 + Val(last.ret) * (last'.price - last.price)
          /\ asset_holdings' = last.holdings0
          /\ Val(position'[last.bot]).status = "CLOSED"]_vars

\* C3: a SELL with position type LONG executed (sized and not skipped by
\* the quantity policy) against a tracked record that is OPEN and LONG and
\* whose quantity q does not exceed asset_holdings leaves the record CLOSED
\* with exit_price equal to the sell price, cash higher by exactly price * q
\* and asset_holdings lower by exactly q.
C3_SellLongCloses ==
    (/\ last.op = "place_order"
     /\ last.action = "SELL"
     /\ last.position_type = "LONG"
     /\ last.price > 0
     /\ last.before # None
     /\ Val(last.before).status = "OPEN"
     /\ Val(last.before).position_type = "LONG"
     /\ Val(last.before).quantity <= last.holdings0
     /\ last.q # None
     /\ last.result # "skip")
    => /\ last.result = "ok"
       /\ Val(position[last.bot]).status = "CLOSED"
       /\ Val(position[last.bot]).exit_price = Some(last.price)
       /\ cash = last.cash0 + last.price * Val(last.before).quantity
       /\ asset_holdings = last.holdings0 - Val(last.before).quantity

C3_Witness ==
    /\ last.op = "place_order"
    /\ last.action = "SELL"
    /\ last.position_type = "LONG"
    /\ last.before # None
    /\ Val(last.before).status = "OPEN"
    /\ Val(last.before).position_type = "LONG"
    /\ Val(last.before).quantity = 6
    /\ last.q = Some(6)
    /\ last.holdings0 = 6
    /\ last.price = 120
    /\ last.result = "ok"
    /\ Val(position[last.bot]).status = "CLOSED"
    /\ cash = last.cash0 + 720
    /\ asset_holdings = 0

\* C4: in every state reachable by deposits, buys, sells and direct
\* execute_order calls, successful or failing, of gateways sharing the
\* ledger, cash >= 0 and asset_holdings >= 0.
C4_TotalsNonNegative == cash >= 0 /\ asset_holdings >= 0

\* One gateway's sell is refused after the other gateway sold the holdings.
C4_Witness ==
    /\ last.result = "InsufficientShares"
    /\ last.bot = "b1"
    /\ asset_holdings = 0
    /\ \E i \in DOMAIN db : db[i].bot_name = "b2" /\ db[i].action = "SELL"

\* C5: an order whose BUY debit would make cash negative fails with
\* InsufficientFunds, one whose SELL debit would make asset_holdings
\* negative fails with InsufficientShares, and in both cases cash and
\* asset_holdings are what they were before the call.
C5_NoPartialMutation ==
    /\ last.result = "InsufficientFunds" =>
         /\ Val(last.touched).action = "BUY"
         /\ Val(LegPrice(Val(last.touched))) * Val(last.touched).quantity > last.cash0
         /\ cash = last.cash0
         /\ asset_holdings = last.holdings0
    /\ last.result = "InsufficientShares" =>
         /\ Val(last.touched).action = "SELL"
         /\ Val(last.touched).quantity > last.holdings0
         /\ cash = last.cash0
         /\ asset_holdings = last.holdings0
    /\ (last.op \in OrderOps /\ last.result = "ok") =>
         IF Val(last.touched).action = "BUY"
         THEN Val(LegPrice(Val(last.touched))) * Val(last.ret) <= last.cash0
         ELSE Val(last.ret) <= last.holdings0

C5_Witness ==
    /\ last.op = "place_order"
    /\ last.result = "InsufficientFunds"
    /\ last.cash0 = 400
    /\ Val(last.touched).quantity = 6
    /\ cash = 400
    /\ asset_holdings = 6

\* C6: cash and asset_holdings are mutated only by successful executions:
\* every order that raises, whatever the cause (invalid status, insufficient
\* funds or shares, a Store failure in the submit or the finalize phase),
\* leaves both totals as they were before the call.
C6_RaisesLeaveTotals ==
    (last.op \in OrderOps /\ last.result \notin {"ok", "skip"})
    => (cash = last.cash0 /\ asset_holdings = last.holdings0)

\* C7: execute_order on a record whose status is not PENDING or OPEN fails
\* with InvalidTransition and leaves cash, asset_holdings, every field of
\* the record, the table and the tracked positions unchanged.
C7_InvalidTransition ==
    [][(/\ last'.op = "execute_order"
        /\ Val(last'.before).status \notin {"PENDING", "OPEN"})
       => /\ last'.result = "InvalidTransition"
          /\ last'.touched = last'.before
          /\ cash' = cash
          /\ asset_holdings' = asset_holdings
          /\ db' = db
          /\ position' = position]_vars

C7_Witness ==
    /\ last.op = "execute_order"
    /\ last.bot = "b1"
    /\ Val(last.before).status = "CLOSED"
    /\ last.result = "InvalidTransition"
    /\ Val(position["b1"]).status = "CLOSED"

\* C8: a record whose status has become CLOSED, CANCELED or FAILED never has
\* a different status afterwards: the object a gateway tracks keeps it for
\* as long as it is tracked, a row of the table keeps it, and so does a
\* record handed to execute_order directly.
C8_TerminalStatus ==
    [][/\ \A b \in Bots :
            (/\ position[b] # None
             /\ Val(position[b]).status \in Terminal
             /\ ~(last'.bot = b /\ last'.rebound))
            => /\ position'[b] # None
               /\ Val(position'[b]).status = Val(position[b]).status
       /\ \A i \in DOMAIN db :
            db[i].status \in Terminal => db'[i].status = db[i].status
       /\ (last'.op = "execute_order" /\ Val(last'.before).status \in Terminal)
            => Val(last'.touched).status = Val(last'.before).status]_vars

\* An order placed after the tracked record was closed: the gateway tracks
\* a new record and the closed one's row is still CLOSED.
C8_Witness ==
    /\ last.op = "place_order"
    /\ last.before # None
    /\ Val(last.before).status = "CLOSED"
    /\ last.rebound
    /\ Val(last.before).id # None
    /\ db[Val(Val(last.before).id)].status = "CLOSED"
    /\ Val(position[last.bot]).status # "CLOSED"

\* C9: every record with status CLOSED, tracked or persisted, has both its
\* entry fill price and its exit fill price set.
C9_ClosedHasFills ==
    /\ \A b \in Bots :
         (position[b] # None /\ Val(position[b]).status = "CLOSED")
         => (Val(position[b]).entry_price # None /\ Val(position[b]).exit_price # None)
    /\ \A i \in DOMAIN db :
         db[i].status = "CLOSED"
         => (db[i].entry_price # None /\ db[i].exit_price # None)

\* C10: the quantity of every existing record, tracked or persisted, is an
\* integer > 0.
C10_QuantityPositive ==
    /\ \A b \in Bots : position[b] # None => Val(position[b]).quantity > 0
    /\ \A i \in DOMAIN db : db[i].quantity > 0

\* C11: one open position per (bot, ticker): after any sequence of buy and
\* sell calls the table holds at most one row with status OPEN for a
\* gateway's (bot_name, ticker).
C11_OneOpenRow ==
    \A b \in Bots :
        Cardinality({i \in RowsOf(db, b, Ticker(b)) : db[i].status = "OPEN"}) <= 1

\* C12: under the adjust policy, when the sized quantity is 0, place_order
\* returns 0 without raising, whether or not a record is tracked.
C12_AdjustReturnsZero ==
    (/\ last.op = "place_order"
     /\ config[last.bot].insufficient_resources_policy = "adjust"
     /\ last.q = Some(0))
    => (last.result = "ok" /\ last.ret = Some(0))

\* C13: under the skip policy, when the sized quantity is 0, place_order
\* returns None and mutates nothing: the tracked record (which object and
\* every field), cash, asset_holdings and the table are unchanged.
C13_SkipMutatesNothing ==
    [][(/\ last'.op = "place_order"
        /\ config[last'.bot].insufficient_resources_policy = "skip"
        /\ last'.q = Some(0))
       => /\ last'.result = "skip"
          /\ last'.ret = None
          /\ ~last'.rebound
          /\ position' = position
          /\ cash' = cash
          /\ asset_holdings' = asset_holdings
          /\ db' = db]_vars

\* A sell skipped while a record is tracked and shares are held.
C13_Witness ==
    /\ last.op = "place_order"
    /\ last.action = "SELL"
    /\ config[last.bot].insufficient_resources_policy = "skip"
    /\ last.q = Some(0)
    /\ last.result = "skip"
    /\ position[last.bot] # None
    /\ asset_holdings > 0

\* C14: under the halt policy, when the sized quantity is not positive,
\* place_order fails with InsufficientResources before a record is created
\* or modified and before the ledger or the table is touched; under adjust
\* and skip place_order never fails with InsufficientResources.
C14_HaltRaises ==
    [][last'.op = "place_order" =>
        /\ (/\ ~PriceRejected(last'.price)
            /\ ~(last'.action = "SELL" /\ NoOpenPosition(position[last'.bot], asset_holdings))
            /\ config[last'.bot].insufficient_resources_policy = "halt"
            /\ RawQuantity(cash, asset_holdings, commission, position[last'.bot],
                           config[last'.bot],
                           [action |-> last'.action, price |-> last'.price]) <= 0)
           => /\ last'.result = "InsufficientResources"
              /\ ~last'.rebound
              /\ last'.touched = None
              /\ position' = position
              /\ cash' = cash
              /\ asset_holdings' = asset_holdings
              /\ db' = db
        /\ last'.result = "InsufficientResources"
           => config[last'.bot].insufficient_resources_policy = "halt"]_vars

\* A buy halted with no cash, and a record tracked.
C14_Witness ==
    /\ last.op = "place_order"
    /\ last.action = "BUY"
    /\ last.result = "InsufficientResources"
    /\ config[last.bot].insufficient_resources_policy = "halt"
    /\ last.cash0 = 0
    /\ position[last.bot] # None

\* C15: every successful order ends in the status the transition table gives
\* for the record's (action, position type): BUY/LONG and SELL/SHORT leave
\* it OPEN with the entry price and date stamped, BUY/SHORT and SELL/LONG
\* leave it CLOSED with the exit price and date stamped; its row has the
\* same status.
C15_TransitionTable ==
    (last.op \in OrderOps /\ last.result = "ok")
    => /\ Inserts(Val(last.touched)) =>
            /\ Val(last.touched).status = "OPEN"
            /\ Val(last.touched).entry_date = Now
            /\ Val(last.touched).entry_price # None
            /\ Val(last.touched).entry_price = Val(last.touched).entry_submit_price
       /\ Updates(Val(last.touched)) =>
            /\ Val(last.touched).status = "CLOSED"
            /\ Val(last.touched).exit_date = Now
            /\ Val(last.touched).exit_price # None
            /\ Val(last.touched).exit_price = Val(last.touched).exit_submit_price
       /\ Inserts(Val(last.touched)) \/ Updates(Val(last.touched))
       /\ Val(last.touched).id # None
       /\ db[Val(Val(last.touched).id)].status = Val(last.touched).status

\* A short of 6 shares covered by a BUY.
C15_Witness ==
    /\ last.op = "place_order"
    /\ last.action = "BUY"
    /\ last.result = "ok"
    /\ last.ret = Some(6)
    /\ Val(last.touched).position_type = "SHORT"
    /\ Val(last.before).status = "OPEN"
    /\ Val(last.touched).status = "CLOSED"
    /\ Val(last.touched).exit_price = Some(last.price)

\* C16: every buy or sell call ends in exactly one of three ways: it returns
\* a filled quantity n >= 0, the tracked record is then OPEN or CLOSED and
\* asset_holdings has moved by exactly n; or it returns None, only under the
\* skip policy with a sized quantity of 0; or it raises.
C16_ThreeEndings ==
    last.op = "place_order"
    => \/ /\ last.result = "ok"
          /\ last.ret # None
          /\ Val(last.ret) >= 0
          /\ Val(position[last.bot]).status \in {"OPEN", "CLOSED"}
          /\ asset_holdings = last.holdings0
                + (IF last.action = "BUY" THEN Val(last.ret) ELSE 0 - Val(last.ret))
       \/ /\ last.result = "skip"
          /\ last.ret = None
          /\ config[last.bot].insufficient_resources_policy = "skip"
          /\ last.q = Some(0)
       \/ /\ last.result \notin {"ok", "skip"}
          /\ last.ret = None

\* A sell that opened a short of 6 shares and returned 6.
C16_Witness ==
    /\ last.op = "place_order"
    /\ last.action = "SELL"
    /\ last.position_type = "SHORT"
    /\ last.result = "ok"
    /\ last.ret = Some(6)
    /\ last.holdings0 = 6
    /\ asset_holdings = 0
    /\ Val(position[last.bot]).status = "OPEN"

\* The fill price an order stamped on the record: the entry price of an
\* opening order, the exit price of a closing one.
FillPrice(r) == IF Inserts(r) THEN r.entry_price ELSE r.exit_price

\* C17: every order place_order submits is executed at the price passed to
\* the call: after a successful buy(price) or sell(price), on a new record
\* or a tracked one, cash has changed by exactly price * filled quantity and
\* the fill price stamped on the record is that price.
C17_ExecutedAtCallPrice ==
    (last.op = "place_order" /\ last.result = "ok")
    => /\ FillPrice(Val(last.touched)) = Some(last.price)
       /\ cash = last.cash0
                 + (IF last.action = "BUY" THEN 0 - last.price * Val(last.ret)
                    ELSE last.price * Val(last.ret))

\* C18: the quantity a SELL commits is the sell-aggressiveness fraction of
\* what is held: against a tracked OPEN record with quantity r (or holdings
\* h when no record is tracked) and active sell ratio s, the quantity
\* returned and removed from asset_holdings is floor(r * s) (floor(h * s)).
C18_SellFraction ==
    (/\ last.op = "place_order"
     /\ last.action = "SELL"
     /\ last.result = "ok"
     /\ (last.before = None \/ Val(last.before).status = "OPEN"))
    => /\ last.ret = Some(SellQuantity(last.before, last.holdings0,
                        config[last.bot].sell_aggressiveness_levels[
                            config[last.bot].sell_aggressiveness]))
       /\ asset_holdings = last.holdings0 - Val(last.ret)

\* C19: after an order fails with InsufficientFunds or InsufficientShares
\* the record is PENDING in memory and in the table, and the failure is
\* recoverable: once the ledger holds enough cash or assets, the same buy or
\* sell repeated on the same gateway succeeds and brings the record, in
\* memory and in the row that was left PENDING, to OPEN or CLOSED.
C19_Recoverable ==
    [][/\ last'.result \in {"InsufficientFunds", "InsufficientShares"} =>
            /\ Val(last'.touched).status = "PENDING"
            /\ Val(last'.touched).id # None
            /\ db'[Val(Val(last'.touched).id)].status = "PENDING"
       /\ (/\ last'.op = "place_order"
           /\ config[last'.bot].insufficient_resources_policy = "adjust"
           /\ position[last'.bot] # None
           /\ Val(position[last'.bot]).status = "PENDING"
           /\ Val(position[last'.bot]).id # None
           /\ db[Val(Val(position[last'.bot]).id)].status = "PENDING"
           /\ last'.action = Val(position[last'.bot]).action
           /\ last'.position_type = Val(position[last'.bot]).position_type
           /\ LegPrice(Val(position[last'.bot])) = Some(last'.price)
           /\ IF last'.action = "BUY"
              THEN cash >= last'.price * Val(position[last'.bot]).quantity
              ELSE asset_holdings >= Val(position[last'.bot]).quantity)
          => /\ last'.result = "ok"
             /\ Val(position'[last'.bot]).status \in {"OPEN", "CLOSED"}
             /\ db'[Val(Val(position[last'.bot]).id)].status
                    = Val(position'[last'.bot]).status]_vars

\* C20: place_order, and so buy and sell, with price <= 0 fails with
\* InvalidPrice before sizing, and leaves the tracked record, cash,
\* asset_holdings and the table unchanged.
C20_InvalidPrice ==
    [][(last'.op = "place_order" /\ last'.price <= 0)
       => /\ last'.result = "InvalidPrice"
          /\ last'.q = None
          /\ ~last'.rebound
          /\ position' = position
          /\ cash' = cash
          /\ asset_holdings' = asset_holdings
          /\ db' = db]_vars

\* A sell at a negative price refused while a record is tracked.
C20_Witness ==
    /\ last.op = "place_order"
    /\ last.action = "SELL"
    /\ last.price < 0
    /\ last.result = "InvalidPrice"
    /\ position[last.bot] # None
    /\ asset_holdings > 0

\* C21 as stated: a sell placed when no record is tracked and asset_holdings
\* is 0 fails with NoOpenPosition under every insufficient-resources policy
\* and changes no state.
C21_AnySell ==
    [][(/\ last'.op = "place_order"
        /\ last'.action = "SELL"
        /\ position[last'.bot] = None
        /\ asset_holdings = 0)
       => /\ last'.result = "NoOpenPosition"
          /\ position' = position
          /\ cash' = cash
          /\ asset_holdings' = asset_holdings
          /\ db' = db]_vars

\* C21, amended: a sell at a price > 0 placed when no record is tracked and
\* asset_holdings is 0 fails with NoOpenPosition under every
\* insufficient-resources policy and changes no state; at a price <= 0 the
\* same sell fails with InvalidPrice, the check that comes first.
C21_NoOpenPosition ==
    [][(/\ last'.op = "place_order"
        /\ last'.action = "SELL"
        /\ position[last'.bot] = None
        /\ asset_holdings = 0)
       => /\ last'.result = IF last'.price > 0 THEN "NoOpenPosition"
                            ELSE "InvalidPrice"
          /\ last'.q = None
          /\ ~last'.rebound
          /\ position' = position
          /\ cash' = cash
          /\ asset_holdings' = asset_holdings
          /\ db' = db]_vars

\* The sell refused under the skip policy, with cash on the ledger.
C21_Witness ==
    /\ last.op = "place_order"
    /\ last.action = "SELL"
    /\ last.result = "NoOpenPosition"
    /\ config[last.bot].insufficient_resources_policy = "skip"
    /\ position[last.bot] = None
    /\ asset_holdings = 0
    /\ cash > 0

\* A gateway's configuration as the setters keep it: each map has the three
\* keys with 1 >= max >= moderate >= conservative >= 0, in tenths, and each
\* active level is one of the keys.
ConfigValid(cfg) ==
    /\ DOMAIN cfg.buy_aggressiveness_levels = LevelNames
    /\ DOMAIN cfg.sell_aggressiveness_levels = LevelNames
    /\ cfg.buy_aggressiveness \in LevelNames
    /\ cfg.sell_aggressiveness \in LevelNames
    /\ \A m \in {cfg.buy_aggressiveness_levels, cfg.sell_aggressiveness_levels} :
         /\ 10 >= m.max
         /\ m.max >= m.moderate
         /\ m.moderate >= m.conservative
         /\ m.conservative >= 0

\* C22: the ratio setters reject every triple that is not in [0,1] or not
\* descending and leave the configured map unchanged on rejection; so each
\* map always satisfies 1 >= max >= moderate >= conservative >= 0 and the
\* active level is one of its three keys.
C22_RatiosDescending ==
    [][/\ \A b \in Bots : ConfigValid(config[b]) /\ ConfigValid(config'[b])
       /\ (/\ last'.op \in {"set_buy_aggressiveness_ratios",
                            "set_sell_aggressiveness_ratios"}
           /\ \/ \E k \in LevelNames : Val(last'.touched)[k] > 10
              \/ \E k \in LevelNames : Val(last'.touched)[k] < 0
              \/ Val(last'.touched).max < Val(last'.touched).moderate
              \/ Val(last'.touched).moderate < Val(last'.touched).conservative)
          => (last'.result = "ValueError" /\ config' = config)]_vars

\* The spec's example, (0.3, 0.6, 0.1), rejected after the map had been set
\* to another triple, which is still the configured one.
C22_Witness ==
    /\ last.op = "set_buy_aggressiveness_ratios"
    /\ last.touched = Some(Levels(3, 6, 1))
    /\ last.result = "ValueError"
    /\ config["b1"].buy_aggressiveness_levels = Levels(6, 3, 1)

\* C23: run loads the latest non-closed record of (bot_name, ticker) as the
\* tracked position, none if there is no such record; the tracked position
\* the strategy sees on entry is never a CLOSED record.
C23_RunLoadsNonClosed ==
    (last.op = "run" /\ last.result = "ok" /\ position[last.bot] # None)
        => Val(position[last.bot]).status # "CLOSED"

\* C24: constructing a record with stop_loss or take_profit present and <= 0
\* fails with a ValidationError and yields no record.
C24_RiskPositive ==
    (/\ last.op = "construct"
     /\ \E f \in RiskFields :
          Val(last.before)[f] # None /\ Val(Val(last.before)[f]) <= 0)
        => (last.result = "ValidationError" /\ last.touched = None)

\* C25: constructing a record with any of the four price fields present and
\* <= 0, exactly 0 included, fails with a ValidationError; every price field
\* of every constructed record is absent or > 0.
C25_PricesPositive ==
    /\ (/\ last.op = "construct"
        /\ \E f \in PriceFields :
             Val(last.before)[f] # None /\ Val(Val(last.before)[f]) <= 0)
           => (last.result = "ValidationError" /\ last.touched = None)
    /\ (last.op = "construct" /\ last.touched # None)
           => \A f \in PriceFields :
                Val(last.touched)[f] = None \/ Val(Val(last.touched)[f]) > 0

\* C26: a BUY/SHORT leg is the first persistence of its record; a BUY/SHORT
\* placed with no tracked record is inserted (the Store assigns its id),
\* executed and ends CLOSED.
C26_CoverInserts ==
    (/\ last.op = "place_order"
     /\ last.action = "BUY"
     /\ last.position_type = "SHORT"
     /\ last.price > 0
     /\ last.before = None
     /\ last.q # None
     /\ Val(last.q) > 0)
        => /\ last.result = "ok"
           /\ Val(last.touched).status = "CLOSED"
           /\ Val(last.touched).id # None
           /\ db[Val(Val(last.touched).id)].status = "CLOSED"

\* C27: the submit step stamps the leg the transition table names. An
\* opening order (BUY on LONG, SELL on SHORT) sets the entry-submit date and
\* leaves the exit-submit price and date as they were; a closing order (SELL
\* on LONG, BUY on SHORT) sets the exit-submit price and date and leaves the
\* entry-submit price and date of the record it found as they were.
C27_SubmitStampsLeg ==
    (last.op = "place_order" /\ last.result = "ok")
        => LET r == Val(last.touched)
               opening == <<r.action, r.position_type>>
                              \in {<<"BUY", "LONG">>, <<"SELL", "SHORT">>}
           IN IF opening
              THEN /\ r.entry_submit_date = Now
                   /\ r.entry_submit_price # None
                   /\ r.exit_submit_date # Now
                   /\ r.exit_submit_price =
                        IF last.rebound THEN None
                        ELSE Val(last.before).exit_submit_price
              ELSE /\ r.exit_submit_date = Now
                   /\ r.exit_submit_price = Some(last.price)
                   /\ ~last.rebound =>
                        /\ r.entry_submit_date # Now
                        /\ r.entry_submit_price =
                             Val(last.before).entry_submit_price

C29_NewBuyAffordable ==
    /\ (/\ last.op = "place_order"
        /\ last.action = "BUY"
        /\ OpensNew(last.before)
        /\ last.q # None)
           => /\ last.price * Val(last.q) <= last.cash0
              /\ last.result # "InsufficientFunds"
    /\ (last.op = "place_order" /\ last.result = "InsufficientFunds")
           => /\ last.action = "BUY"
              /\ ~OpensNew(last.before)
              /\ ~last.rebound

\* A new BUY at ratio 1 and commission 0 spends the whole balance.
C29_Witness ==
    /\ last.op = "place_order"
    /\ last.action = "BUY"
    /\ OpensNew(last.before)
    /\ last.result = "ok"
    /\ last.cash0 > 0
    /\ last.price * Val(last.q) = last.cash0
    /\ cash = 0

\* The status the transition table gives a filled leg.
FilledStatus(action, position_type) ==
    IF <<action, position_type>> \in {<<"BUY", "LONG">>, <<"SELL", "SHORT">>}
    THEN "OPEN" ELSE "CLOSED"

OtherType(position_type) == IF position_type = "LONG" THEN "SHORT" ELSE "LONG"

ClosingLeg(action, position_type) ==
    <<action, position_type>> \in {<<"SELL", "LONG">>, <<"BUY", "SHORT">>}

\* C31 as stated: every closing-leg order placed when no record is tracked,
\* or when the tracked record is CLOSED, constructs a new record, is refused
\* by the Store for lack of an id, leaves cash and asset_holdings unchanged
\* and leaves the gateway tracking the new unpersisted PENDING record.
C31_ClosingTracksNew ==
    (/\ last.op = "place_order"
     /\ ClosingLeg(last.action, last.position_type)
     /\ last.before = None \/ Val(last.before).status = "CLOSED")
        => /\ last.result = "MissingId"
           /\ cash = last.cash0
           /\ asset_holdings = last.holdings0
           /\ position[last.bot] # None
           /\ Val(position[last.bot]).id = None
           /\ Val(position[last.bot]).status = "PENDING"

\* C31, amended: such an order never fills and never moves cash or
\* asset_holdings. When its price is > 0 and its sized quantity is > 0, a
\* new record is constructed, the Store update is refused for lack of an id
\* and the gateway is left tracking the new unpersisted PENDING record; in
\* every other case the call ends before a record is constructed and the
\* gateway keeps the position it had.
C31_ClosingNeverFills ==
    (/\ last.op = "place_order"
     /\ ClosingLeg(last.action, last.position_type)
     /\ last.before = None \/ Val(last.before).status = "CLOSED")
        => /\ last.result # "ok"
           /\ last.ret = None
           /\ cash = last.cash0
           /\ asset_holdings = last.holdings0
           /\ IF last.price > 0 /\ last.q # None /\ Val(last.q) > 0
              THEN /\ last.result = "MissingId"
                   /\ last.rebound
                   /\ position[last.bot] # None
                   /\ position[last.bot] # last.before
                   /\ Val(position[last.bot]).id = None
                   /\ Val(position[last.bot]).status = "PENDING"
                   /\ Val(position[last.bot]).action = last.action
                   /\ Val(position[last.bot]).position_type = last.position_type
                   /\ Val(position[last.bot]).quantity = Val(last.q)
              ELSE /\ last.result \in {"InvalidPrice", "NoOpenPosition",
                                       "InsufficientResources", "skip",
                                       "ValidationError"}
                   /\ position[last.bot] = last.before

\* buy("SHORT") while the record closed by the previous sell is tracked: the
\* closed record is replaced by an unpersisted one.
C31_Witness ==
    /\ last.op = "place_order"
    /\ last.action = "BUY"
    /\ last.position_type = "SHORT"
    /\ last.before # None
    /\ Val(last.before).status = "CLOSED"
    /\ Val(last.before).id # None
    /\ last.result = "MissingId"
    /\ Val(position[last.bot]).id = None
    /\ Val(position[last.bot]).status = "PENDING"

\* C32: ledger conservation, step by step. A deposit adds its amount to its
\* own total; an order that executed n at fill price p moves n into
\* asset_holdings and p * n out of cash for a BUY, and the reverse for a SELL,
\* for LONG and SHORT alike and with no commission taken; an order that
\* failed, and every other call, leaves both totals as they were.
C32_LedgerConservation ==
    [][IF last'.op = "deposit"
       THEN /\ asset_holdings' = asset_holdings
            /\ cash' - cash \in
                 IF last'.result = "ok" THEN {a \in DepositAmounts : a >= 0}
                 ELSE {0}
       ELSE IF last'.op = "deposit_assets"
       THEN /\ cash' = cash
            /\ asset_holdings' - asset_holdings \in
                 IF last'.result = "ok" THEN {a \in AssetAmounts : a >= 0}
                 ELSE {0}
       ELSE IF last'.op \in OrderOps /\ last'.result = "ok"
       THEN LET r == Val(last'.touched)
                n == Val(last'.ret)
                p == Val(FillPrice(r))
            IN IF r.action = "BUY"
               THEN cash' = cash - p * n /\ asset_holdings' = asset_holdings + n
               ELSE cash' = cash + p * n /\ asset_holdings' = asset_holdings - n
       ELSE cash' = cash /\ asset_holdings' = asset_holdings]_vars

====
